---- MODULE Spec2Model ----
\* Traffic analytics dashboard (src/generated2.py): the seven SQL views of
\* QUERIES, evaluated with PostgreSQL semantics over a snapshot of
\* raw_traffic_readings joined with sensors, and the Streamlit refresh loop
\* that fetches the selected view, renders it and sleeps.
\*
\* Numbers: speeds are integers; an average or any other rational is the
\* pair [num, den] with den > 0, compared by cross-multiplication, so no
\* rounding is introduced by the model. record_time is a number of minutes
\* since the epoch. location_name and road_type are integers standing for
\* names in collation order.
EXTENDS Integers, Sequences, FiniteSets, TLC

VARIABLES db, selected_query, auto_refresh, pc, df, out, cycles, slept

vars == <<db, selected_query, auto_refresh, pc, df, out, cycles, slept>>

\* ---------------------------------------------------------------- bounds
\* Largest number of distinct vehicles in one (location, hour) bucket.
MaxCount == 3
\* Number of refresh cycles a behaviour is followed for.
MaxCycles == 2

\* ------------------------------------------------------ program constants
refresh_rate == 60
MinutesPerHour == 60
HoursPerDay == 24

\* --------------------------------------------------------------- helpers
Range(s) == {s[i] : i \in 1..Len(s)}

RECURSIVE SumSeq(_)
SumSeq(s) == IF s = <<>> THEN 0 ELSE s[1] + SumSeq(Tail(s))

RECURSIVE Concat(_)
Concat(ss) == IF ss = <<>> THEN <<>> ELSE ss[1] \o Concat(Tail(ss))

Abs(x) == IF x < 0 THEN -x ELSE x

RECURSIVE GCD(_, _)
GCD(a, b) == IF b = 0 THEN a ELSE GCD(b, a % b)

RECURSIVE Product(_)
Product(s) == IF s = <<>> THEN 1 ELSE s[1] * Product(Tail(s))

\* a <= b for two sort keys, tuples of integers of the same length compared
\* column by column.
KeyLeq(a, b) ==
    LET d == {i \in 1..Len(a) : a[i] # b[i]}
    IN  d = {} \/ LET m == CHOOSE i \in d : \A k \in d : i <= k
                  IN  a[m] < b[m]

\* ORDER BY: the rows of s in ascending order of their keys (key[i] is the
\* key of s[i]; a column sorted DESC enters negated). The sort is the
\* stable insertion sort: each row goes after every row placed before it
\* whose key is not greater.
SortBy(s, key) ==
    LET ins[i \in 0..Len(s)] ==
            IF i = 0 THEN <<>>
            ELSE LET t == ins[i - 1]
                     p == Cardinality({j \in 1..Len(t) :
                                          KeyLeq(key[t[j]], key[i])})
                 IN  SubSeq(t, 1, p) \o <<i>> \o SubSeq(t, p + 1, Len(t))
    IN  [n \in 1..Len(s) |-> s[ins[Len(s)][n]]]

\* The distinct values of a set of integers, ascending.
SortedSeqOf(S) ==
    LET n == Cardinality(S)
    IN  [i \in 1..n |-> CHOOSE x \in S : Cardinality({y \in S : y < x}) = i - 1]

\* ------------------------------------------------------------- the tables
\* sensors: sensor_id -> location_name, road_type. Sensors 1 and 2 stand at
\* the same location.
sensors ==
    { [sensor_id |-> 1, location_name |-> 1, road_type |-> 1],
      [sensor_id |-> 2, location_name |-> 1, road_type |-> 2],
      [sensor_id |-> 3, location_name |-> 2, road_type |-> 2] }

Reading(s, v, sp, t) ==
    [sensor_id |-> s, vehicle_id |-> v, speed |-> sp, record_time |-> t]

\* raw_traffic_readings r JOIN sensors s ON s.sensor_id = r.sensor_id
JoinSensors(rows) ==
    Concat([i \in 1..Len(rows) |->
        LET m == {s \in sensors : s.sensor_id = rows[i].sensor_id}
        IN  IF m = {} THEN <<>>
            ELSE LET s == CHOOSE s \in m : TRUE
                 IN  << [sensor_id |-> rows[i].sensor_id,
                         vehicle_id |-> rows[i].vehicle_id,
                         speed |-> rows[i].speed,
                         record_time |-> rows[i].record_time,
                         location_name |-> s.location_name,
                         road_type |-> s.road_type] >>])

\* DATE_TRUNC('hour', record_time), as the number of the hour since the epoch.
DateTruncHour(t) == t \div MinutesPerHour

\* EXTRACT(HOUR FROM record_time)
ExtractHour(t) == (t \div MinutesPerHour) % HoursPerDay

\* ------------------------------------------------- view 1: hourly flow
\* hourly_flow CTE: COUNT(DISTINCT vehicle_id) per (location_name, hour_slot).
HourlyFlow(rows) ==
    LET j == JoinSensors(rows)
        keys == {<<j[i].location_name, DateTruncHour(j[i].record_time)>> :
                    i \in 1..Len(j)}
        locs == SortedSeqOf({k[1] : k \in keys})
    IN  Concat([a \in 1..Len(locs) |->
            LET hs == SortedSeqOf({k[2] : k \in {x \in keys : x[1] = locs[a]}})
            IN  [b \in 1..Len(hs) |->
                    [location_name |-> locs[a],
                     hour_slot |-> hs[b],
                     vehicle_count |-> Cardinality(
                        {j[i].vehicle_id : i \in
                            {k \in 1..Len(j) :
                                /\ j[k].location_name = locs[a]
                                /\ DateTruncHour(j[k].record_time) = hs[b]}})]]])

\* The window's sort: PARTITION BY location_name ORDER BY vehicle_count DESC.
FlowWindowOrder(r) == <<r.location_name, -r.vehicle_count>>

\* DENSE_RANK() in place of RANK(): a row that is no peer of the previous
\* one takes the previous rank plus one.
RankRowsDense(w) ==
    LET start[i \in 1..Len(w)] ==
            IF i = 1 \/ w[i].location_name # w[i - 1].location_name
            THEN i ELSE start[i - 1]
        rank[i \in 1..Len(w)] ==
            IF start[i] = i THEN 1
            ELSE IF w[i].vehicle_count = w[i - 1].vehicle_count
                 THEN rank[i - 1]
                 ELSE rank[i - 1] + 1
    IN  [i \in 1..Len(w) |->
            [location_name |-> w[i].location_name,
             hour_slot |-> w[i].hour_slot,
             vehicle_count |-> w[i].vehicle_count,
             rank_within_location |-> rank[i]]]

\* RANK(): scanning the sorted rows, a row that starts a partition has rank
\* 1, a peer of the previous row keeps its rank, any other row takes its row
\* number within the partition.
RankRows(w) ==
    LET start[i \in 1..Len(w)] ==
            IF i = 1 \/ w[i].location_name # w[i - 1].location_name
            THEN i ELSE start[i - 1]
        rank[i \in 1..Len(w)] ==
            IF start[i] = i THEN 1
            ELSE IF w[i].vehicle_count = w[i - 1].vehicle_count
                 THEN rank[i - 1]
                 ELSE i - start[i] + 1
    IN  [i \in 1..Len(w) |->
            [location_name |-> w[i].location_name,
             hour_slot |-> w[i].hour_slot,
             vehicle_count |-> w[i].vehicle_count,
             rank_within_location |-> rank[i]]]

\* ORDER BY location_name, rank_within_location, hour_slot
FlowFinalOrder(r) ==
    <<r.location_name, r.rank_within_location, r.hour_slot>>

QueryFlow(rows) ==
    LET h == HourlyFlow(rows)
        w == SortBy(h, [i \in 1..Len(h) |-> FlowWindowOrder(h[i])])
        r == RankRows(w)
    IN  SortBy(r, [i \in 1..Len(r) |-> FlowFinalOrder(r[i])])

\* ------------------------------------------- view 2: speed outliers
\* The speeds of the joined rows of one sensor, ascending (the sort of an
\* ordered-set aggregate).
SortedSpeeds(j, sensor) ==
    LET mine == SelectSeq(j, LAMBDA r : r.sensor_id = sensor)
    IN  SortBy([i \in 1..Len(mine) |-> mine[i].speed],
               [i \in 1..Len(mine) |-> <<mine[i].speed>>])

\* PERCENTILE_DISC in place of PERCENTILE_CONT: the row at or below the
\* fractional position, without interpolation.
PercentileDisc4(v, k) == 4 * v[((k * (Len(v) - 1)) \div 4) + 1]

\* PERCENTILE_CONT(k/4) WITHIN GROUP (ORDER BY speed) over the sorted
\* speeds v, v # <<>>: the value at the fractional row k/4 * (n - 1),
\* interpolated linearly between the two rows around it. Fourths of a speed
\* are exact, so the result is kept as a number of fourths.
PercentileCont4(v, k) ==
    LET pos4 == k * (Len(v) - 1)
        first_row == pos4 \div 4
        frac4 == pos4 % 4
    IN  IF frac4 = 0
        THEN 4 * v[first_row + 1]
        ELSE 4 * v[first_row + 1]
               + frac4 * (v[first_row + 2] - v[first_row + 1])

\* The CASE of the outer SELECT, with q1 and q3 in fourths:
\* speed < q1 - 1.5*(q3 - q1), speed > q3 + 1.5*(q3 - q1), else.
TrafficStatus(speed, q1x4, q3x4) ==
    IF 8 * speed < 2 * q1x4 - 3 * (q3x4 - q1x4) THEN "Possible slowdown"
    ELSE IF 8 * speed > 2 * q3x4 + 3 * (q3x4 - q1x4) THEN "Abnormal high speed"
    ELSE "Normal"

\* ORDER BY s.location_name, r.record_time
LocationTimeOrder(r) == <<r.location_name, r.record_time>>

QuerySlowdown(rows) ==
    LET j == JoinSensors(rows)
        c == [i \in 1..Len(j) |->
                LET v == SortedSpeeds(j, j[i].sensor_id)
                IN  [sensor_id |-> j[i].sensor_id,
                     location_name |-> j[i].location_name,
                     record_time |-> j[i].record_time,
                     speed |-> j[i].speed,
                     traffic_status |->
                        TrafficStatus(j[i].speed, PercentileCont4(v, 1),
                                      PercentileCont4(v, 3))]]
    IN  SortBy(c, [i \in 1..Len(c) |-> LocationTimeOrder(c[i])])

\* ------------------------------------------- view 3: rolling average
\* A frame of 6 preceding rows and the current one.
FramePrecedingSix == 5 + 1

\* ROWS BETWEEN 5 PRECEDING AND CURRENT ROW
FramePreceding == 5

\* The window's sort: PARTITION BY s.sensor_id ORDER BY r.record_time.
SensorTimeOrder(r) == <<r.sensor_id, r.record_time>>

\* PARTITION BY location_name in place of sensor_id.
SamePartitionByLocation(x, y) == x.location_name = y.location_name

\* Two rows of the window's sort are in the same partition.
SamePartition(x, y) == x.sensor_id = y.sensor_id

\* AVG(speed) over the moving frame, as the executor keeps it: a running
\* sum and count per partition, to which each row is added and from which
\* the row that falls out of the frame is taken away.
MovingAvg(w) ==
    LET start[i \in 1..Len(w)] ==
            IF i = 1 \/ ~SamePartition(w[i], w[i - 1])
            THEN i ELSE start[i - 1]
        acc[i \in 1..Len(w)] ==
            IF start[i] = i THEN [sum |-> w[i].speed, n |-> 1]
            ELSE IF i - start[i] > FramePreceding
                 THEN [sum |-> acc[i - 1].sum + w[i].speed
                                 - w[i - FramePreceding - 1].speed,
                       n |-> acc[i - 1].n]
                 ELSE [sum |-> acc[i - 1].sum + w[i].speed,
                       n |-> acc[i - 1].n + 1]
    IN  [i \in 1..Len(w) |-> [num |-> acc[i].sum, den |-> acc[i].n]]

QueryDynamic(rows) ==
    LET j == JoinSensors(rows)
        w == SortBy(j, [i \in 1..Len(j) |-> SensorTimeOrder(j[i])])
        avg == MovingAvg(w)
        c == [i \in 1..Len(w) |->
                [location_name |-> w[i].location_name,
                 record_time |-> w[i].record_time,
                 rolling_avg_speed |-> avg[i]]]
    IN  SortBy(c, [i \in 1..Len(c) |-> LocationTimeOrder(c[i])])

\* ------------------------------------------- view 6: anomaly z-scores
\* stats CTE, for one sensor: the number of its joined rows and the exact
\* ingredients of AVG and STDDEV. With n rows, sum s and sum of squares q:
\* mean = s/n and std^2 = ss / (n*(n-1)) with ss = n*q - s^2; STDDEV is
\* NULL when n = 1.
SensorStats(j, sensor) ==
    LET mine == SelectSeq(j, LAMBDA r : r.sensor_id = sensor)
        n == Len(mine)
        s == SumSeq([i \in 1..n |-> mine[i].speed])
        q == SumSeq([i \in 1..n |-> mine[i].speed * mine[i].speed])
    IN  [n |-> n, sum |-> s, ss |-> n * q - s * s]

\* z^2 of a reading, exact and in lowest terms: with d = n*speed - sum,
\* z^2 = d^2 * (n-1) / (n * ss). Defined when n > 1 and ss > 0.
ZSquared(speed, st) ==
    LET d == st.n * speed - st.sum
        num == d * d * (st.n - 1)
        den == st.n * st.ss
        g == GCD(num, den)
    IN  [num |-> num \div g, den |-> den \div g]

\* ABS(z) > 1.7, the factor of the bands computed by the rendering code.
ExceedsTwoLoose(z2) == 100 * z2.num > 289 * z2.den

\* ABS((speed - mean_speed) / std_speed) > 2.0
ExceedsTwo(z2) == z2.num > 4 * z2.den

\* ROUND(z, 2) in hundredths: the whole number k nearest to 100*|z| (halves
\* away from zero), with the sign of z. k is nearest when
\* (2k-1)^2 <= 4 * 10^4 * z^2 < (2k+1)^2.
RoundedZ(speed, st) ==
    LET z2 == ZSquared(speed, st)
        f == 4 * z2.num
        x4 == 10000 * (f \div z2.den) + (10000 * (f % z2.den)) \div z2.den
        k == CHOOSE k \in 0..(100 * st.n) :
                /\ k = 0 \/ (2 * k - 1) * (2 * k - 1) <= x4
                /\ x4 < (2 * k + 1) * (2 * k + 1)
    IN  IF st.n * speed < st.sum THEN -k ELSE k

\* The division (speed - mean_speed) / std_speed raises "division by zero"
\* for a row whose sensor has std_speed = 0, and the statement fails.
DivisionByZero(j) ==
    \E i \in 1..Len(j) :
        LET st == SensorStats(j, j[i].sensor_id)
        IN  st.n > 1 /\ st.ss = 0

Null == [null |-> TRUE, val |-> 0]

NotNull(v) == [null |-> FALSE, val |-> v]

\* a < b for rationals of positive denominators.
RatLess(a, b) ==
    IF a.den = b.den THEN a.num < b.num ELSE a.num * b.den < b.num * a.den

\* ORDER BY ABS(z) DESC, NULLs first as in any descending order: the key of
\* row i of the scored rows c is the number of rows that sort strictly
\* before it.
AbsZDescOrder(c, i) ==
    << Cardinality({k \in 1..Len(c) :
          \/ c[k].z_score.null /\ ~c[i].z_score.null
          \/ /\ ~c[k].z_score.null /\ ~c[i].z_score.null
             /\ RatLess(c[i].z2, c[k].z2)}) >>

\* The rows of view 6 when no division fails. A row of a sensor with a
\* single reading has a NULL z_score, and the CASE, whose condition is then
\* NULL, takes its ELSE.
AnomalyRows(j) ==
    LET scored ==
          [i \in 1..Len(j) |->
              LET st == SensorStats(j, j[i].sensor_id)
              IN  IF st.n = 1
                  THEN [row |-> j[i], z2 |-> [num |-> 0, den |-> 1],
                        z_score |-> Null, traffic_status |-> "Regular"]
                  ELSE [row |-> j[i], z2 |-> ZSquared(j[i].speed, st),
                        z_score |-> NotNull(RoundedZ(j[i].speed, st)),
                        traffic_status |->
                           IF ExceedsTwo(ZSquared(j[i].speed, st))
                           THEN "Irregular" ELSE "Regular"]]
        sorted == SortBy(scored,
                    [i \in 1..Len(scored) |-> AbsZDescOrder(scored, i)])
    IN  [i \in 1..Len(sorted) |->
            [sensor_id |-> sorted[i].row.sensor_id,
             location_name |-> sorted[i].row.location_name,
             record_time |-> sorted[i].row.record_time,
             speed |-> sorted[i].row.speed,
             z_score |-> sorted[i].z_score,
             traffic_status |-> sorted[i].traffic_status]]

QueryIrregular(rows) ==
    LET j == JoinSensors(rows)
    IN  IF DivisionByZero(j)
        THEN [error |-> TRUE, rows |-> <<>>]
        ELSE [error |-> FALSE, rows |-> AnomalyRows(j)]

\* ------------------------------------------- view 4: density and speed
\* COUNT(DISTINCT vehicle_id) and AVG(speed) per location_name.
DensityRows(j) ==
    LET locs == SortedSeqOf({j[i].location_name : i \in 1..Len(j)})
    IN  [a \in 1..Len(locs) |->
            LET mine == SelectSeq(j, LAMBDA r : r.location_name = locs[a])
            IN  [location_name |-> locs[a],
                 vehicle_count |->
                    Cardinality({mine[i].vehicle_id : i \in 1..Len(mine)}),
                 avg_speed |->
                    [num |-> SumSeq([i \in 1..Len(mine) |-> mine[i].speed]),
                     den |-> Len(mine)]]]

\* The same SELECT without its GROUP BY: one row for the whole table, also
\* when the table is empty.
QueryDensityUngrouped(rows) ==
    LET j == JoinSensors(rows)
    IN  << [location_name |-> 0,
            vehicle_count |-> Cardinality({j[i].vehicle_id : i \in 1..Len(j)}),
            avg_speed |-> [num |-> SumSeq([i \in 1..Len(j) |-> j[i].speed]),
                           den |-> IF j = <<>> THEN 1 ELSE Len(j)]] >>

\* ORDER BY vehicle_count DESC
QueryDensity(rows) ==
    LET d == DensityRows(JoinSensors(rows))
    IN  SortBy(d, [i \in 1..Len(d) |-> <<-d[i].vehicle_count>>])

\* ------------------------------------------- view 5: daily trend
\* hourly CTE: AVG(speed) per EXTRACT(HOUR FROM record_time), over the
\* readings alone (no join), in ascending hour_of_day, the order of the
\* window and of the result.
HourlyAvg(rows) ==
    LET hs == SortedSeqOf({ExtractHour(rows[i].record_time) : i \in 1..Len(rows)})
    IN  [a \in 1..Len(hs) |->
            LET mine == SelectSeq(rows,
                            LAMBDA r : ExtractHour(r.record_time) = hs[a])
            IN  [hour_of_day |-> hs[a],
                 avg_speed |->
                    [num |-> SumSeq([i \in 1..Len(mine) |-> mine[i].speed]),
                     den |-> Len(mine)]]]

\* ROUND(a - b, 2) for rationals a and b, in hundredths: the whole number
\* nearest to 100 * (a - b), halves away from zero.
RoundedDiff(a, b) ==
    LET n == a.num * b.den - b.num * a.den
        d == a.den * b.den
        k == (200 * Abs(n) + d) \div (2 * d)
    IN  IF n < 0 THEN -k ELSE k

\* The predecessor of the window's first row taken from its last row.
LagRowWrapped(h, i) == IF i = 1 THEN NotNull(h[Len(h)]) ELSE NotNull(h[i - 1])

\* LAG(avg_speed) OVER (ORDER BY hour_of_day): the row before row i of the
\* sorted rows h, and NULL for the first one.
LagRow(h, i) == IF i = 1 THEN Null ELSE NotNull(h[i - 1])

QueryTrend(rows) ==
    LET h == HourlyAvg(rows)
    IN  [i \in 1..Len(h) |->
            LET prev == LagRow(h, i)
            IN  [hour_of_day |-> h[i].hour_of_day,
                 avg_speed |-> h[i].avg_speed,
                 prev_hour_speed |->
                    IF prev.null THEN Null ELSE NotNull(prev.val.avg_speed),
                 delta_speed |->
                    IF prev.null THEN Null
                    ELSE NotNull(RoundedDiff(h[i].avg_speed,
                                             prev.val.avg_speed))]]

\* ------------------------------------------- view 7: road types
\* AVG(speed) per (road_type, EXTRACT(HOUR FROM record_time)::int),
\* ORDER BY road_type, hour_of_day.
QueryRoadType(rows) ==
    LET j == JoinSensors(rows)
        types == SortedSeqOf({j[i].road_type : i \in 1..Len(j)})
    IN  Concat([a \in 1..Len(types) |->
            LET mine == SelectSeq(j, LAMBDA r : r.road_type = types[a])
                hs == SortedSeqOf({ExtractHour(mine[i].record_time) :
                                      i \in 1..Len(mine)})
            IN  [b \in 1..Len(hs) |->
                    LET g == SelectSeq(mine,
                                LAMBDA r : ExtractHour(r.record_time) = hs[b])
                    IN  [road_type |-> types[a],
                         hour_of_day |-> hs[b],
                         avg_speed |->
                            [num |-> SumSeq([i \in 1..Len(g) |-> g[i].speed]),
                             den |-> Len(g)]]]])

\* ------------------------------------------------------ the refresh loop
T1 == "1. Identification of traffic peaks and flow intensity"
T2 == "2. Movement efficiency assessment with slowdown detection"
T3 == "3. Dynamic evaluation of traffic conditions"
T4 == "4. Density-speed correlation"
T5 == "5. Daily traffic trend"
T6 == "6. Irregular patterns and possible incidents"
T7 == "7. Comparison of speed and time by road type"

\* list(QUERIES.keys())
Titles == {T1, T2, T3, T4, T5, T6, T7}

\* kw in title.lower(), for the keywords of the if/elif chain.
Contains(title, kw) ==
    <<title, kw>> \in
        { <<T1, "flow">>, <<T2, "slowdown">>, <<T3, "dynamic">>,
          <<T4, "density">>, <<T5, "trend">>, <<T6, "irregular">>,
          <<T7, "road type">> }

NoMetric == [kind |-> "none", num |-> 0, den |-> 1]

\* What one pass of the script has put on the page.
NoOutput ==
    [calls |-> <<>>, chart |-> <<>>, peaks |-> <<>>, table |-> <<>>,
     metric |-> NoMetric]

\* QUERIES[title] run by load_data: the rows, or the database's error.
RunQuery(title, rows) ==
    CASE title = T1 -> [error |-> FALSE, rows |-> QueryFlow(rows)]
      [] title = T2 -> [error |-> FALSE, rows |-> QuerySlowdown(rows)]
      [] title = T3 -> [error |-> FALSE, rows |-> QueryDynamic(rows)]
      [] title = T6 -> QueryIrregular(rows)
      [] title = T4 -> [error |-> FALSE, rows |-> QueryDensity(rows)]
      [] title = T5 -> [error |-> FALSE, rows |-> QueryTrend(rows)]
      [] title = T7 -> [error |-> FALSE, rows |-> QueryRoadType(rows)]

\* st.subheader(title); df = load_data(query). An error of the database is
\* an exception that nothing catches: the script run ends there.
LoadData ==
    /\ pc = "start"
    /\ LET r == RunQuery(selected_query, db)
       IN  /\ out' = [out EXCEPT !.calls = Append(@, "subheader")]
           /\ IF r.error
              THEN pc' = "crashed" /\ df' = <<>>
              ELSE pc' = "loaded" /\ df' = r.rows
    /\ UNCHANGED <<db, selected_query, auto_refresh, cycles, slept>>

\* if df.empty: st.warning("No data returned.")
NoData ==
    /\ pc = "loaded"
    /\ df = <<>>
    /\ out' = [out EXCEPT !.calls = Append(@, "warning")]
    /\ pc' = "handled"
    /\ UNCHANGED <<db, selected_query, auto_refresh, df, cycles, slept>>

\* df.sort_values(by=["location_name", "hour_slot"])
FlowDisplayOrder(r) == <<r.location_name, r.hour_slot>>

\* The rows of the chart that get the "Peak Hour" star.
Peaks(filtered_df) ==
    SelectSeq(filtered_df, LAMBDA r : r.rank_within_location = 1)

\* The "flow" branch: sort for display, keep the locations chosen in the
\* multiselect (any subset; all of them by default), draw the lines and
\* mark the peaks.
RenderFlow ==
    /\ pc = "loaded"
    /\ df # <<>>
    /\ Contains(selected_query, "flow")
    /\ LET sorted == SortBy(df, [i \in 1..Len(df) |-> FlowDisplayOrder(df[i])])
           all_locations == {sorted[i].location_name : i \in 1..Len(sorted)}
       IN  \E selected_locations \in SUBSET all_locations :
             LET filtered_df ==
                    SelectSeq(sorted,
                        LAMBDA r : r.location_name \in selected_locations)
             IN  /\ df' = sorted
                 /\ out' = [out EXCEPT
                        !.calls = @ \o <<"multiselect", "plotly_chart">>,
                        !.chart = filtered_df,
                        !.peaks = Peaks(filtered_df)]
    /\ pc' = "handled"
    /\ UNCHANGED <<db, selected_query, auto_refresh, cycles, slept>>

\* df.groupby("location_name")["traffic_status"].value_counts().unstack()
\* reindexed to the three statuses: one row per location with the number of
\* readings of each status.
StatusSummary(d) ==
    LET locs == SortedSeqOf({d[i].location_name : i \in 1..Len(d)})
        n(loc, st) ==
            Cardinality({i \in 1..Len(d) :
                d[i].location_name = loc /\ d[i].traffic_status = st})
    IN  [a \in 1..Len(locs) |->
            [location_name |-> locs[a],
             slowdown |-> n(locs[a], "Possible slowdown"),
             high |-> n(locs[a], "Abnormal high speed"),
             normal |-> n(locs[a], "Normal")]]

\* The "slowdown" branch: the scatter of every reading and the summary table.
RenderSlowdown ==
    /\ pc = "loaded"
    /\ df # <<>>
    /\ ~Contains(selected_query, "flow")
    /\ Contains(selected_query, "slowdown")
    /\ out' = [out EXCEPT
            !.calls = @ \o <<"plotly_chart", "subheader", "dataframe">>,
            !.chart = df,
            !.table = StatusSummary(df)]
    /\ pc' = "handled"
    /\ UNCHANGED <<db, selected_query, auto_refresh, df, cycles, slept>>

\* The "dynamic" branch: one line per location of the rolling averages.
RenderDynamic ==
    /\ pc = "loaded"
    /\ df # <<>>
    /\ ~Contains(selected_query, "flow")
    /\ ~Contains(selected_query, "slowdown")
    /\ Contains(selected_query, "dynamic")
    /\ out' = [out EXCEPT !.calls = Append(@, "plotly_chart"), !.chart = df]
    /\ pc' = "handled"
    /\ UNCHANGED <<db, selected_query, auto_refresh, df, cycles, slept>>

\* The "irregular" branch: abs_z = |z_score| colours the scatter, one panel
\* per location. (The per-location mean and 1.7-sigma bands computed after
\* the figure are never used.)
RenderIrregular ==
    /\ pc = "loaded"
    /\ df # <<>>
    /\ ~Contains(selected_query, "flow")
    /\ ~Contains(selected_query, "slowdown")
    /\ ~Contains(selected_query, "dynamic")
    /\ ~Contains(selected_query, "density")
    /\ ~Contains(selected_query, "trend")
    /\ Contains(selected_query, "irregular")
    /\ out' = [out EXCEPT
            !.calls = Append(@, "plotly_chart"),
            !.chart = [i \in 1..Len(df) |->
                          [location_name |-> df[i].location_name,
                           record_time |-> df[i].record_time,
                           speed |-> df[i].speed,
                           abs_z |-> IF df[i].z_score.null THEN Null
                                     ELSE NotNull(Abs(df[i].z_score.val))]]]
    /\ pc' = "handled"
    /\ UNCHANGED <<db, selected_query, auto_refresh, df, cycles, slept>>

\* df["vehicle_count"].corr(df["avg_speed"]): Pearson's coefficient over the
\* rows of d, NaN when there are fewer than two rows or when either column
\* has no spread. With x the counts and y the averages brought to the
\* common denominator, r = sxy / sqrt(sxx * syy); r is given by its sign and
\* by r^2 in lowest terms.
Corr(d) ==
    LET n == Len(d)
        l == Product([i \in 1..n |-> d[i].avg_speed.den])
        x == [i \in 1..n |-> d[i].vehicle_count]
        y == [i \in 1..n |-> d[i].avg_speed.num * (l \div d[i].avg_speed.den)]
        sx == SumSeq(x)
        sy == SumSeq(y)
        sxy == n * SumSeq([i \in 1..n |-> x[i] * y[i]]) - sx * sy
        sxx == n * SumSeq([i \in 1..n |-> x[i] * x[i]]) - sx * sx
        syy == n * SumSeq([i \in 1..n |-> y[i] * y[i]]) - sy * sy
        g == GCD(sxy * sxy, sxx * syy)
    IN  IF n < 2 \/ sxx = 0 \/ syy = 0
        THEN [kind |-> "nan", num |-> 0, den |-> 1]
        ELSE [kind |-> "number",
              num |-> (IF sxy < 0 THEN -1 ELSE 1) * ((sxy * sxy) \div g),
              den |-> (sxx * syy) \div g]

\* round(corr, 2), in hundredths; NaN stays NaN.
RoundCorr(c) ==
    IF c.kind = "nan" THEN c
    ELSE LET f == 4 * Abs(c.num)
             x4 == 10000 * (f \div c.den) + (10000 * (f % c.den)) \div c.den
             k == CHOOSE k \in 0..100 :
                     /\ k = 0 \/ (2 * k - 1) * (2 * k - 1) <= x4
                     /\ x4 < (2 * k + 1) * (2 * k + 1)
         IN  [kind |-> "number", num |-> IF c.num < 0 THEN -k ELSE k,
              den |-> 100]

\* The "density" branch: the coefficient is computed from whatever rows
\* there are and shown as a metric, then the table.
RenderDensity ==
    /\ pc = "loaded"
    /\ df # <<>>
    /\ ~Contains(selected_query, "flow")
    /\ ~Contains(selected_query, "slowdown")
    /\ ~Contains(selected_query, "dynamic")
    /\ Contains(selected_query, "density")
    /\ out' = [out EXCEPT
            !.calls = @ \o <<"corr", "metric", "dataframe">>,
            !.metric = RoundCorr(Corr(df)),
            !.table = df]
    /\ pc' = "handled"
    /\ UNCHANGED <<db, selected_query, auto_refresh, df, cycles, slept>>

\* The "trend" branch: the line of avg_speed over hour_of_day.
RenderTrend ==
    /\ pc = "loaded"
    /\ df # <<>>
    /\ ~Contains(selected_query, "flow")
    /\ ~Contains(selected_query, "slowdown")
    /\ ~Contains(selected_query, "dynamic")
    /\ ~Contains(selected_query, "density")
    /\ Contains(selected_query, "trend")
    /\ out' = [out EXCEPT !.calls = Append(@, "plotly_chart"), !.chart = df]
    /\ pc' = "handled"
    /\ UNCHANGED <<db, selected_query, auto_refresh, df, cycles, slept>>

\* The "road type" branch: one line per road type over hour_of_day.
RenderRoadType ==
    /\ pc = "loaded"
    /\ df # <<>>
    /\ ~Contains(selected_query, "flow")
    /\ ~Contains(selected_query, "slowdown")
    /\ ~Contains(selected_query, "dynamic")
    /\ ~Contains(selected_query, "density")
    /\ ~Contains(selected_query, "trend")
    /\ ~Contains(selected_query, "irregular")
    /\ Contains(selected_query, "road type")
    /\ out' = [out EXCEPT !.calls = Append(@, "plotly_chart"), !.chart = df]
    /\ pc' = "handled"
    /\ UNCHANGED <<db, selected_query, auto_refresh, df, cycles, slept>>

\* if not auto_refresh: break
Break ==
    /\ pc = "handled"
    /\ ~auto_refresh
    /\ pc' = "done"
    /\ UNCHANGED <<db, selected_query, auto_refresh, df, out, cycles, slept>>

\* time.sleep(refresh_rate)
Sleep ==
    /\ pc = "handled"
    /\ auto_refresh
    /\ pc' = "sleep"
    /\ slept' = slept + refresh_rate
    /\ UNCHANGED <<db, selected_query, auto_refresh, df, out, cycles>>

\* st.rerun(): the script starts again from the top with the widgets'
\* values kept; the page is drawn afresh.
Rerun ==
    /\ pc = "sleep"
    /\ cycles < MaxCycles
    /\ pc' = "start"
    /\ cycles' = cycles + 1
    /\ df' = <<>>
    /\ out' = NoOutput
    /\ UNCHANGED <<db, selected_query, auto_refresh, slept>>

\* The state of a script run that starts on the snapshot rows with the
\* analysis title chosen in the sidebar.
InitRun(rows, title) ==
    /\ db = rows
    /\ selected_query = title
    /\ auto_refresh \in BOOLEAN
    /\ pc = "start"
    /\ df = <<>>
    /\ out = NoOutput
    /\ cycles = 1
    /\ slept = 0

\* ------------------------------------------- view 1: the snapshots checked
\* The readings of c distinct vehicles seen at location loc during hour h;
\* with dup, vehicle 1 is seen a second time in that hour. Location 1 has
\* two sensors, which share the vehicles.
FlowBlock(loc, h, c, dup) ==
    [v \in 1..c |->
        Reading(IF loc = 1 THEN 1 + (v % 2) ELSE 3, v, 50,
                h * MinutesPerHour + v)]
    \o (IF dup /\ c >= 1
        THEN <<Reading(IF loc = 1 THEN 1 ELSE 3, 1, 50,
                       h * MinutesPerHour + MinutesPerHour - 1)>>
        ELSE <<>>)

FlowSnapshot(c0, c1, c2, cb, dup) ==
    FlowBlock(1, 0, c0, dup) \o FlowBlock(2, 1, cb, dup)
    \o FlowBlock(1, 1, c1, dup) \o FlowBlock(1, 2, c2, dup)

\* Vehicle counts 10, 50, 20 at hours 0, 1, 2 of location 1.
FlowExample == FlowSnapshot(10, 50, 20, 0, FALSE)

InitFlow ==
    \E c0, c1, c2, cb \in 0..MaxCount, dup \in BOOLEAN, ex \in BOOLEAN :
        InitRun(IF ex THEN FlowExample ELSE FlowSnapshot(c0, c1, c2, cb, dup),
                T1)

NextFlow == LoadData \/ NoData \/ RenderFlow \/ Break \/ Sleep \/ Rerun

SpecFlow == InitFlow /\ [][NextFlow]_vars

\* ------------------------------------------- view 2: the snapshots checked
\* Speeds at which the thresholds are met, missed and hit exactly:
\* among 0, 0, 10, 50 the upper threshold is 50 itself.
OutlierSpeeds == {0, 10, 50}

\* Most readings in a snapshot of views 2 and 6.
MaxRows == 4

\* Every table of at most MaxRows readings, in every physical order, of
\* sensor 1 at any of these speeds and of sensor 3 at the positive ones.
OutlierSnapshots ==
    UNION {[1..n -> {Reading(1, 1, sp, 0) : sp \in OutlierSpeeds}
                    \cup {Reading(3, 1, sp, 0) : sp \in OutlierSpeeds \ {0}}] :
            n \in 0..MaxRows}

InitOutlier == \E rows \in OutlierSnapshots : InitRun(rows, T2)

NextOutlier == LoadData \/ NoData \/ RenderSlowdown \/ Break \/ Sleep \/ Rerun

SpecOutlier == InitOutlier /\ [][NextOutlier]_vars

\* ------------------------------------------- view 3: the snapshots checked
\* Most readings of sensor 1 in a snapshot of view 3.
MaxWindowRows == 7

RollingSpeeds == {10, 40}

\* Sensor 1's readings at minutes 1, 2, ... with the speeds sp, stored in
\* that order or (rev) in the opposite one; with other, sensor 2, which
\* stands at the same location, has one reading at minute 3, stored in the
\* middle of the table.
RollingSnapshot(sp, rev, other) ==
    LET n == Len(sp)
        mine == [i \in 1..n |->
                    IF rev THEN Reading(1, 1, sp[n + 1 - i], n + 1 - i)
                    ELSE Reading(1, 1, sp[i], i)]
        h == n \div 2
    IN  IF other
        THEN SubSeq(mine, 1, h) \o <<Reading(2, 2, 1000, 3)>>
               \o SubSeq(mine, h + 1, n)
        ELSE mine

\* Ordered speeds 10, 20, ..., 70 of one sensor.
RollingExample == RollingSnapshot(<<10, 20, 30, 40, 50, 60, 70>>, FALSE, FALSE)

RollingSnapshots ==
    {RollingSnapshot(sp, rev, other) :
        sp \in UNION {[1..n -> RollingSpeeds] : n \in 0..MaxWindowRows},
        rev \in BOOLEAN, other \in BOOLEAN}
    \cup {RollingSnapshot(<<10, 20, 30, 40, 50, 60, 70>>, rev, other) :
            rev \in BOOLEAN, other \in BOOLEAN}

InitRolling == \E rows \in RollingSnapshots : InitRun(rows, T3)

NextRolling == LoadData \/ NoData \/ RenderDynamic \/ Break \/ Sleep \/ Rerun

SpecRolling == InitRolling /\ [][NextRolling]_vars

\* ------------------------------------------- view 6: the snapshots checked
\* Most readings of sensor 1, and of sensor 3, in a snapshot of view 6.
MaxZRows == 6
MaxZOtherRows == 2

ZSpeeds == {10, 50}

\* Sensor 1's readings with the speeds a, then sensor 3's with the speeds
\* b, one a minute.
AnomalySnapshot(a, b) ==
    [i \in 1..Len(a) |-> Reading(1, 1, a[i], i)]
    \o [i \in 1..Len(b) |-> Reading(3, 2, b[i], i)]

\* One sensor with the readings 10, 12, 11, 13, 100.
AnomalyExample == AnomalySnapshot(<<10, 12, 11, 13, 100>>, <<>>)

AnomalySnapshots ==
    {AnomalySnapshot(a, b) :
        a \in UNION {[1..n -> ZSpeeds] : n \in 0..MaxZRows},
        b \in UNION {[1..n -> ZSpeeds] : n \in 0..MaxZOtherRows}}
    \cup {AnomalyExample}

InitAnomaly == \E rows \in AnomalySnapshots : InitRun(rows, T6)

NextAnomaly == LoadData \/ NoData \/ RenderIrregular \/ Break \/ Sleep \/ Rerun

SpecAnomaly == InitAnomaly /\ [][NextAnomaly]_vars

\* ------------------------------------------- view 5: the snapshots checked
\* Most readings in one hour of the day in a snapshot of view 5.
MaxPerHour == 3

\* n readings taken during hour h of the day, the first m of them at speed
\* 11 and the others at speed 10; with nextday, the first one is taken a day
\* later.
TrendBlock(h, n, m, nextday) ==
    [i \in 1..n |->
        Reading(1, i, IF i <= m THEN 11 ELSE 10,
                h * MinutesPerHour + i
                  + (IF nextday /\ i = 1
                     THEN HoursPerDay * MinutesPerHour ELSE 0))]

\* Readings during hours 23, 0 and 5, stored in that order.
TrendSnapshots ==
    {TrendBlock(23, n[1], m[1], FALSE) \o TrendBlock(0, n[2], m[2], nextday)
        \o TrendBlock(5, n[3], m[3], FALSE) :
        n \in [1..3 -> 0..MaxPerHour],
        m \in [1..3 -> 0..MaxPerHour],
        nextday \in BOOLEAN}

InitTrend == \E rows \in TrendSnapshots : InitRun(rows, T5)

NextTrend == LoadData \/ NoData \/ RenderTrend \/ Break \/ Sleep \/ Rerun

SpecTrend == InitTrend /\ [][NextTrend]_vars

\* ------------------------------------------- view 4: the snapshots checked
\* Most readings in a snapshot of view 4.
MaxDensityRows == 3

\* Every table of at most MaxDensityRows readings of sensors 1 and 3 (two
\* locations), vehicles 1 and 2, speeds 10 and 20.
DensitySnapshots ==
    UNION {[1..n -> {Reading(s, v, sp, 0) :
                        s \in {1, 3}, v \in {1, 2}, sp \in {10, 20}}] :
            n \in 0..MaxDensityRows}

InitDensity == \E rows \in DensitySnapshots : InitRun(rows, T4)

NextDensity == LoadData \/ NoData \/ RenderDensity \/ Break \/ Sleep \/ Rerun

SpecDensity == InitDensity /\ [][NextDensity]_vars

\* ------------------------------------------- the dashboard, any view
\* Most readings in a snapshot of the whole dashboard.
MaxLoopRows == 2

\* Every table of at most MaxLoopRows readings of sensors 1 and 3 at speeds
\* 10 and 20, taken at minute 0 or an hour later.
LoopSnapshots ==
    UNION {[1..n -> {Reading(s, 1, sp, t) :
                        s \in {1, 3}, sp \in {10, 20},
                        t \in {0, MinutesPerHour}}] :
            n \in 0..MaxLoopRows}

Init == \E rows \in LoopSnapshots, title \in Titles : InitRun(rows, title)

Next ==
    \/ LoadData
    \/ NoData
    \/ RenderFlow
    \/ RenderSlowdown
    \/ RenderDynamic
    \/ RenderDensity
    \/ RenderTrend
    \/ RenderIrregular
    \/ RenderRoadType
    \/ Break
    \/ Sleep
    \/ Rerun

Spec == Init /\ [][Next]_vars

\* ================================================================ claims
Fetched == pc \in {"loaded", "handled", "sleep", "done"}

Rendered == Fetched /\ pc # "loaded" /\ df # <<>>

\* C1: in the hourly-flow view every record's rank_within_location is 1 plus
\* the number of records of the same location with a strictly greater
\* vehicle_count (so equal counts share a rank, whatever their hour_slot);
\* the rows starred as peaks are exactly the displayed rows of rank 1; and
\* counts 10, 50, 20 at hours 0, 1, 2 rank hour 1 first, hour 2 second and
\* hour 0 third.
C1_CompetitionRank ==
    (Fetched /\ selected_query = T1) =>
        /\ \A i \in 1..Len(df) :
              df[i].rank_within_location =
                 1 + Cardinality({k \in 1..Len(df) :
                        /\ df[k].location_name = df[i].location_name
                        /\ df[k].vehicle_count > df[i].vehicle_count})
        /\ Rendered =>
              /\ Range(out.chart) \subseteq Range(df)
              /\ Range(out.peaks) =
                    {r \in Range(out.chart) : r.rank_within_location = 1}
        /\ db = FlowExample =>
              {<<r.hour_slot, r.vehicle_count, r.rank_within_location>> :
                    r \in Range(df)}
                 = {<<1, 50, 1>>, <<2, 20, 2>>, <<0, 10, 3>>}

\* A rendered flow chart with two hours tied at rank 1, both starred, and a
\* third hour of the same location at rank 3.
C1_Witness ==
    /\ Rendered /\ selected_query = T1
    /\ \E a, b, c \in Range(df) :
          /\ a.location_name = b.location_name
          /\ b.location_name = c.location_name
          /\ a.hour_slot # b.hour_slot
          /\ a.rank_within_location = 1 /\ b.rank_within_location = 1
          /\ c.rank_within_location = 3
          /\ {a, b} \subseteq Range(out.peaks)

\* The speeds of sensor s in the snapshot, as the positions that hold them.
RowsOf(s) == {i \in 1..Len(db) : db[i].sensor_id = s}

\* The k-th smallest speed of sensor s (k = 1 for the smallest), by counting.
KthSpeed(s, k) ==
    CHOOSE x \in {db[i].speed : i \in RowsOf(s)} :
        /\ Cardinality({i \in RowsOf(s) : db[i].speed < x}) < k
        /\ k <= Cardinality({i \in RowsOf(s) : db[i].speed <= x})

\* Four times the linear-interpolation percentile p/4 of sensor s's speeds.
Quartile4(s, p) ==
    LET h4 == p * (Cardinality(RowsOf(s)) - 1)
        lo == (h4 \div 4) + 1
    IN  IF h4 % 4 = 0 THEN 4 * KthSpeed(s, lo)
        ELSE (4 - (h4 % 4)) * KthSpeed(s, lo) + (h4 % 4) * KthSpeed(s, lo + 1)

\* The snapshot with rows i and k exchanged.
Swap(rows, i, k) ==
    [n \in 1..Len(rows) |->
        IF n = i THEN rows[k] ELSE IF n = k THEN rows[i] ELSE rows[n]]

StatusOf(d) ==
    {<<d[i].sensor_id, d[i].speed, d[i].traffic_status>> : i \in 1..Len(d)}

\* C2: in the speed-outlier view every reading of every sensor S is
\* classified: Possible slowdown iff speed < q1(S) - 1.5*(q3(S) - q1(S)),
\* Abnormal high speed iff speed > q3(S) + 1.5*(q3(S) - q1(S)), Normal
\* otherwise, with q1 and q3 the linear-interpolation quartiles of all of
\* S's speeds; exchanging any two rows of the snapshot (and so any
\* reordering of it) leaves every reading's status unchanged; and a sensor
\* whose readings all have the same speed has only Normal readings.
C2_OutlierStatus ==
    (Fetched /\ selected_query = T2) =>
        /\ Len(df) = Len(db)
        /\ {<<db[i].sensor_id, db[i].speed>> : i \in 1..Len(db)}
              = {<<r.sensor_id, r.speed>> : r \in Range(df)}
        /\ \A r \in Range(df) :
              LET q1 == Quartile4(r.sensor_id, 1)
                  q3 == Quartile4(r.sensor_id, 3)
                  low == 8 * r.speed < 2 * q1 - 3 * (q3 - q1)
                  high == 8 * r.speed > 2 * q3 + 3 * (q3 - q1)
              IN  /\ r.traffic_status = "Possible slowdown" <=> low
                  /\ r.traffic_status = "Abnormal high speed" <=> high
                  /\ r.traffic_status = "Normal" <=> (~low /\ ~high)
        /\ pc = "loaded" =>
              \A i, k \in 1..Len(db) :
                 StatusOf(QuerySlowdown(Swap(db, i, k))) = StatusOf(df)
        /\ \A r \in Range(df) :
              (\A i \in RowsOf(r.sensor_id) : db[i].speed = r.speed)
                 => r.traffic_status = "Normal"

\* A rendered outlier view in which a sensor with unequal quartiles has a
\* reading above its upper threshold.
C2_Witness ==
    /\ Rendered /\ selected_query = T2
    /\ \E r \in Range(df) :
          /\ Quartile4(r.sensor_id, 3) > Quartile4(r.sensor_id, 1)
          /\ r.traffic_status = "Abnormal high speed"

\* The position of reading i among its sensor's readings by ascending
\* record_time (1 for the earliest); the snapshots give a sensor's readings
\* distinct times.
PosInSensor(i) ==
    Cardinality({k \in RowsOf(db[i].sensor_id) :
                    db[k].record_time <= db[i].record_time})

\* The readings of i's sensor at positions max(1, pos - 5) .. pos.
WindowOf(i) ==
    {k \in RowsOf(db[i].sensor_id) :
        /\ PosInSensor(k) <= PosInSensor(i)
        /\ PosInSensor(k) >= PosInSensor(i) - 5}

RECURSIVE SumSpeeds(_)
SumSpeeds(S) ==
    IF S = {} THEN 0
    ELSE LET k == CHOOSE k \in S : TRUE
         IN  db[k].speed + SumSpeeds(S \ {k})

LocationOf(sensor) ==
    (CHOOSE s \in sensors : s.sensor_id = sensor).location_name

\* C3: in the rolling-average view every reading at position i of its
\* sensor's readings by ascending record_time gets, as rolling_avg_speed,
\* the mean of the speeds at positions max(1, i-5) .. i of the same sensor:
\* min(i, 6) rows, none of them of another sensor, and a row for every
\* reading.
C3_RollingMean ==
    (Fetched /\ selected_query = T3) =>
        /\ Len(df) = Len(db)
        /\ \A i \in 1..Len(db) :
              Cardinality(
                 {k \in 1..Len(df) :
                    /\ df[k].location_name = LocationOf(db[i].sensor_id)
                    /\ df[k].record_time = db[i].record_time
                    /\ df[k].rolling_avg_speed.den = Cardinality(WindowOf(i))
                    /\ df[k].rolling_avg_speed.num = SumSpeeds(WindowOf(i))})
              = Cardinality(
                 {k \in 1..Len(db) :
                    /\ LocationOf(db[k].sensor_id) = LocationOf(db[i].sensor_id)
                    /\ db[k].record_time = db[i].record_time
                    /\ Cardinality(WindowOf(k)) = Cardinality(WindowOf(i))
                    /\ SumSpeeds(WindowOf(k)) = SumSpeeds(WindowOf(i))})
        /\ \A i \in 1..Len(db) :
              Cardinality(WindowOf(i)) =
                 IF PosInSensor(i) < 6 THEN PosInSensor(i) ELSE 6

\* A fetched rolling-average view in which a sensor has more than six
\* readings of unequal speeds and another sensor of the same location has a
\* reading among them.
C3_Witness ==
    /\ Fetched /\ selected_query = T3
    /\ \E i, k \in 1..Len(db) :
          /\ PosInSensor(i) = 7
          /\ db[k].sensor_id # db[i].sensor_id
          /\ LocationOf(db[k].sensor_id) = LocationOf(db[i].sensor_id)
          /\ \E a, b \in WindowOf(i) : db[a].speed # db[b].speed
          /\ \E a \in RowsOf(db[i].sensor_id) :
                PosInSensor(a) = 1 /\ db[a].speed # db[i].speed

\* The rolling average, in view 3's result, of the reading taken at minute t
\* is the whole number m.
RollingAvgAt(t, m) ==
    \E r \in Range(df) :
        /\ r.record_time = t
        /\ r.rolling_avg_speed.num = m * r.rolling_avg_speed.den

\* C4 (as stated): for ordered speeds 10, 20, ..., 70 the rolling average of
\* the 7th reading is 40 and that of the 1st reading is 10.
C4_Original ==
    (Fetched /\ selected_query = T3 /\ db = RollingExample) =>
        RollingAvgAt(7, 40) /\ RollingAvgAt(1, 10)

\* C4 (amended): for ordered speeds 10, 20, ..., 70 the rolling average of
\* the 7th reading is the mean of its window 20 .. 70, which is 45, and not
\* 40; that of the 1st reading is 10.
C4_SeventhIs45 ==
    (Fetched /\ selected_query = T3 /\ db = RollingExample) =>
        /\ RollingAvgAt(7, 45)
        /\ ~RollingAvgAt(7, 40)
        /\ RollingAvgAt(1, 10)

\* The fetched rolling-average view of the seven readings 10, 20, ..., 70.
C4_Witness ==
    /\ Fetched /\ selected_query = T3 /\ db = RollingExample
    /\ Len(df) = 7

\* The row of view 6's result for the reading of the given speed.
ZRow(speed) == CHOOSE r \in Range(df) : r.speed = speed

\* C5 (as stated): for the sensor readings 10, 12, 11, 13, 100 the reading
\* 100 has |z_score| > 2.0 and is Irregular, and the other four are Regular.
C5_Original ==
    (Fetched /\ selected_query = T6 /\ db = AnomalyExample) =>
        /\ Abs(ZRow(100).z_score.val) > 200
        /\ ZRow(100).traffic_status = "Irregular"
        /\ \A v \in {10, 11, 12, 13} : ZRow(v).traffic_status = "Regular"

\* C5 (amended): for the sensor readings 10, 12, 11, 13, 100, with the
\* sample standard deviation, the reading 100 has z_score 1.79, which is not
\* above 2.0, and is Regular like the other four. (With five readings no
\* |z| exceeds 4 / sqrt(5), about 1.79.)
C5_AllRegular ==
    (Fetched /\ selected_query = T6 /\ db = AnomalyExample) =>
        /\ Len(df) = 5
        /\ ZRow(100).z_score = NotNull(179)
        /\ \A r \in Range(df) :
              /\ ~r.z_score.null /\ Abs(r.z_score.val) <= 200
              /\ r.traffic_status = "Regular"

\* The fetched anomaly view of the readings 10, 12, 11, 13, 100.
C5_Witness ==
    /\ Fetched /\ selected_query = T6 /\ db = AnomalyExample
    /\ \E r \in Range(df) : r.speed = 100

\* Sensor s has at least two readings, all of the same speed: its standard
\* deviation is 0.
ZeroDeviation(s) ==
    /\ Cardinality(RowsOf(s)) >= 2
    /\ \A i, k \in RowsOf(s) : db[i].speed = db[k].speed

\* C6: in the anomaly view, when the snapshot holds a sensor whose standard
\* deviation of speed is 0, the computation does not fail: once the fetch
\* is over every reading of every sensor has a row, and the rows of that
\* sensor carry a definite z_score and a status.
C6_SentinelForZeroDeviation ==
    (/\ selected_query = T6
     /\ pc # "start"
     /\ \E i \in 1..Len(db) : ZeroDeviation(db[i].sensor_id)) =>
        /\ pc # "crashed"
        /\ Len(df) = Len(db)
        /\ \A r \in Range(df) :
              ZeroDeviation(r.sensor_id) =>
                 ~r.z_score.null /\ r.traffic_status \in {"Regular", "Irregular"}

\* The readings taken during hour h of the day, on any day.
HourRows(h) == {i \in 1..Len(db) : ExtractHour(db[i].record_time) = h}

PresentHours == {ExtractHour(db[i].record_time) : i \in 1..Len(db)}

\* The rational a is the mean speed of the readings of hour h.
IsHourMean(a, h) ==
    a.num * Cardinality(HourRows(h)) = SumSpeeds(HourRows(h)) * a.den

\* What C7 says of everything but delta_speed: one record per present hour;
\* a record with an earlier present hour has, as prev_hour_speed, the mean
\* of the latest earlier present hour; the first record has neither
\* prev_hour_speed nor delta_speed.
TrendShape ==
    /\ Len(df) = Cardinality(PresentHours)
    /\ {r.hour_of_day : r \in Range(df)} = PresentHours
    /\ \A r \in Range(df) :
          LET earlier == {h \in PresentHours : h < r.hour_of_day}
          IN  /\ IsHourMean(r.avg_speed, r.hour_of_day)
              /\ IF earlier = {}
                 THEN r.prev_hour_speed.null /\ r.delta_speed.null
                 ELSE /\ ~r.prev_hour_speed.null /\ ~r.delta_speed.null
                      /\ IsHourMean(r.prev_hour_speed.val,
                            CHOOSE h \in earlier : \A g \in earlier : g <= h)

\* C7 (as stated): in the hourly-trend view there is one record per present
\* hour of the day; every record but the first has the mean of the
\* immediately preceding present hour as prev_hour_speed and
\* delta_speed = avg_speed - prev_hour_speed; the first present hour has
\* neither, and hour 23 is never the predecessor of hour 0.
C7_Original ==
    (Fetched /\ selected_query = T5) =>
        /\ TrendShape
        /\ \A r \in Range(df) :
              ~r.delta_speed.null =>
                 r.delta_speed.val * r.avg_speed.den * r.prev_hour_speed.val.den
                    = 100 * (r.avg_speed.num * r.prev_hour_speed.val.den
                               - r.prev_hour_speed.val.num * r.avg_speed.den)

\* C7 (amended): as stated, but delta_speed is avg_speed - prev_hour_speed
\* rounded to two decimals (halves away from zero), not the exact
\* difference.
C7_RoundedDelta ==
    (Fetched /\ selected_query = T5) =>
        /\ TrendShape
        /\ \A r \in Range(df) :
              ~r.delta_speed.null =>
                 LET d == r.avg_speed.den * r.prev_hour_speed.val.den
                     n == r.avg_speed.num * r.prev_hour_speed.val.den
                            - r.prev_hour_speed.val.num * r.avg_speed.den
                     k == r.delta_speed.val
                 IN  /\ 2 * Abs(k * d - 100 * n) <= d
                     /\ 2 * Abs(k * d - 100 * n) = d => Abs(k) * d > 100 * Abs(n)
                     /\ n = 0 => k = 0
                     /\ n > 0 => k >= 0
                     /\ n < 0 => k <= 0

\* A fetched trend view with hours 0, 5 and 23 present, hour 4 absent, and
\* a delta at hour 5 that is not a whole number of hundredths before
\* rounding.
C7_Witness ==
    /\ Fetched /\ selected_query = T5
    /\ PresentHours = {0, 5, 23}
    /\ \E r \in Range(df) :
          /\ r.hour_of_day = 5
          /\ ~r.delta_speed.null
          /\ r.delta_speed.val * r.avg_speed.den * r.prev_hour_speed.val.den
                # 100 * (r.avg_speed.num * r.prev_hour_speed.val.den
                          - r.prev_hour_speed.val.num * r.avg_speed.den)

\* The locations that have a reading in the snapshot.
PresentLocations == {LocationOf(db[i].sensor_id) : i \in 1..Len(db)}

\* C9: in the density/speed view, when the snapshot yields fewer than 2
\* locations the correlation coefficient is not computed (the result is
\* reported as undefined); a number is computed and shown only when there
\* are at least 2 locations.
C9_NoCorrelationBelowTwo ==
    (Rendered /\ selected_query = T4) =>
        /\ Cardinality(PresentLocations) < 2 =>
              /\ "corr" \notin Range(out.calls)
              /\ out.metric.kind # "nan"
        /\ out.metric.kind = "number" => Cardinality(PresentLocations) >= 2

\* C8: for each of the seven views, when the snapshot is empty the fetch
\* raises nothing and returns zero records, and the cycle ends with the
\* "no data" warning alone: no chart, table or metric is produced and the
\* correlation is not computed.
C8_EmptySnapshotNoData ==
    (db = <<>> /\ pc # "start") =>
        /\ pc # "crashed"
        /\ df = <<>>
        /\ pc # "loaded" =>
              /\ out.calls = <<"subheader", "warning">>
              /\ out.chart = <<>> /\ out.peaks = <<>> /\ out.table = <<>>
              /\ out.metric = NoMetric

\* The density/speed view handled on an empty snapshot.
C8_Witness ==
    /\ db = <<>> /\ selected_query = T4
    /\ pc = "handled"
    /\ "warning" \in Range(out.calls)

\* The page shows the selected view's heading and then either the warning
\* or what the view's branch draws.
Handled ==
    /\ Len(out.calls) >= 2
    /\ out.calls[1] = "subheader"
    /\ IF df = <<>> THEN out.calls = <<"subheader", "warning">>
       ELSE "warning" \notin Range(out.calls)

\* The loop's position and counters agree: handling is complete before any
\* delay; the loop is left only with auto-refresh off, after one cycle and
\* no sleep; each sleep adds refresh_rate = 60 seconds; and after a handled
\* cycle exactly one of sleep and break can follow, by auto_refresh alone.
C10_LoopInvariant ==
    /\ pc \in {"handled", "sleep", "done"} => Handled
    /\ pc = "done" => ~auto_refresh /\ cycles = 1 /\ slept = 0
    /\ pc = "sleep" => auto_refresh /\ slept = 60 * cycles
    /\ pc = "handled" => slept = 60 * (cycles - 1)
    /\ pc = "handled" =>
          IF auto_refresh THEN ENABLED Sleep /\ ~ENABLED Break
          ELSE ENABLED Break /\ ~ENABLED Sleep
    /\ (pc = "sleep" /\ cycles < MaxCycles) => ENABLED Rerun

\* The order of a cycle's steps once its fetch has returned.
C10_StepOrder ==
    /\ pc' = "loaded" => pc = "start"
    /\ pc' = "handled" => pc = "loaded"
    /\ pc' = "sleep" => pc = "handled"
    /\ pc = "loaded" => pc' = "handled"
    /\ pc = "handled" =>
          pc' = (IF auto_refresh THEN "sleep" ELSE "done")
    /\ pc = "sleep" => pc' = "start" /\ cycles' = cycles + 1
    /\ pc = "done" => FALSE
    /\ auto_refresh' = auto_refresh /\ selected_query' = selected_query

\* C10: every cycle performs the fetch and then the complete handling of
\* the selected view before any delay. With auto-refresh off the loop exits
\* after exactly one cycle, without sleep or rerun. With auto-refresh on,
\* every cycle, whatever its result, is followed by a sleep of
\* refresh_rate = 60 seconds and then by a rerun that starts the next
\* cycle, and the loop never stops on its own.
C10_RefreshLoop ==
    /\ []C10_LoopInvariant
    /\ [][C10_StepOrder /\ (pc = "start" => pc' = "loaded")]_vars

\* The part of C10 that does hold: the same, for the cycles whose fetch
\* returns.
C10_ControlFlow == []C10_LoopInvariant /\ [][C10_StepOrder]_vars

\* The second cycle of an auto-refreshing dashboard has been handled, one
\* sleep of 60 seconds after the first.
C10_SecondCycleHandled ==
    /\ auto_refresh /\ pc = "handled" /\ cycles = 2 /\ slept = 60

====
